---- MODULE Spec2Model ----
(***************************************************************************)
(* ChronoCam: the capture scheduler, its activity window, the runtime      *)
(* state store and the live-update broadcaster (src/app).                  *)
(*                                                                         *)
(* Threads: the event loop (HTTP handlers of main.py; a handler runs       *)
(* without interruption by another handler up to an await that really      *)
(* suspends) and the worker threads of the background scheduler, one per   *)
(* job (job_snapshot, job_status_heartbeat, job_camera_healthcheck), which *)
(* interleave with the event loop and with one another.                    *)
(***************************************************************************)
EXTENDS Integers, Sequences, FiniteSets, TLC

VARIABLES
    cfg,            \* scheduler.cfg, the shared ConfigModel object
    is_paused,      \* scheduler.is_paused
    scheduler,      \* scheduler.scheduler: None or the BackgroundScheduler instance
    timers,         \* the interval jobs armed in live BackgroundScheduler instances
    app,            \* FastAPI lifecycle: "init", "up", "down"
    camera_error,   \* runtime_state._camera_error
    camera_health,  \* runtime_state._camera_health
    image_stats,    \* runtime_state._image_stats
    clients,        \* broadcast_manager.clients
    queues,         \* the asyncio.Queue of every SSE connection
    conns,          \* SSE connections whose event_generator is alive
    broken,         \* connections whose queue.put raises
    job,            \* the worker thread of each scheduler job: where it is, its locals
    us,             \* update_settings request suspended in asyncio.to_thread
    now,            \* datetime.now().time()
    weekday,        \* datetime.now().weekday()
    astral,         \* what astral.sun.sun() yields today
    status_resp,    \* body of the last GET /status response
    loop,           \* the call that keeps the event loop without awaiting, or None
    login_state,    \* main._login_state: per client IP, None or attempts and blocked_until
    monotonic,      \* time.monotonic(), in seconds
    login_resp      \* outcome of the last POST /login

vars == <<cfg, is_paused, scheduler, timers, app, camera_error, camera_health,
          image_stats, clients, queues, conns, broken, job, us,
          now, weekday, astral, status_resp, loop,
          login_state, monotonic, login_resp>>

\* Python's None
None == [none |-> TRUE]

Range(s) == {s[i] : i \in 1..Len(s)}

(***************************************************************************)
(* Time of day.  A datetime.time is [hour, minute, second]; Python orders  *)
(* time objects lexicographically, which is the order of Secs.             *)
(***************************************************************************)
Time(h, m, s) == [hour |-> h, minute |-> m, second |-> s]

Secs(t) == (t.hour * 60 + t.minute) * 60 + t.second

Digits == {"0", "1", "2", "3", "4", "5", "6", "7", "8", "9"}

DigitVal(ch) ==
    CASE ch = "0" -> 0 [] ch = "1" -> 1 [] ch = "2" -> 2 [] ch = "3" -> 3
      [] ch = "4" -> 4 [] ch = "5" -> 5 [] ch = "6" -> 6 [] ch = "7" -> 7
      [] ch = "8" -> 8 [] ch = "9" -> 9

\* value of a sequence of one or two digit characters
Num(ds) == IF Len(ds) = 1 THEN DigitVal(ds[1])
           ELSE DigitVal(ds[1]) * 10 + DigitVal(ds[2])

\* datetime.strptime(s, "%H:%M").time(): %H is one or two digits up to 23,
\* %M one or two digits up to 59, and the whole string must be consumed.
\* s is the string as a sequence of characters; [ok |-> FALSE] is ValueError.
strptime_HM(s) ==
    LET colons == {i \in 1..Len(s) : s[i] = ":"}
    IN  IF Cardinality(colons) # 1 THEN [ok |-> FALSE]
        ELSE LET p == CHOOSE i \in colons : TRUE
                 hs == SubSeq(s, 1, p - 1)
                 ms == SubSeq(s, p + 1, Len(s))
             IN  IF /\ Len(hs) \in {1, 2}
                    /\ Len(ms) \in {1, 2}
                    /\ Range(hs) \subseteq Digits
                    /\ Range(ms) \subseteq Digits
                    /\ Num(hs) <= 23
                    /\ Num(ms) <= 59
                 THEN [ok |-> TRUE, t |-> Time(Num(hs), Num(ms), 0)]
                 ELSE [ok |-> FALSE]

\* mutant: the inner bound of both branches made exclusive
is_within_time_range_strict(start, end, t) ==
    IF Secs(start) < Secs(end)
    THEN Secs(start) < Secs(t) /\ Secs(t) < Secs(end)
    ELSE Secs(t) > Secs(start) \/ Secs(t) < Secs(end)

\* sunrise_utils.is_within_time_range
is_within_time_range(start, end, t) ==
    IF Secs(start) < Secs(end)
    THEN Secs(start) <= Secs(t) /\ Secs(t) <= Secs(end)
    ELSE Secs(t) >= Secs(start) \/ Secs(t) <= Secs(end)

\* sunrise_utils.get_sun_times: both times or (None, None)
get_sun_times(c) ==
    IF "exc" \in DOMAIN astral THEN <<None, None>>
    ELSE IF astral.sunrise # None /\ astral.sunset # None
         THEN <<astral.sunrise, astral.sunset>>
         ELSE <<None, None>>

day_abbr == <<"Mon", "Tue", "Wed", "Thu", "Fri", "Sat", "Sun">>

\* mutant: a malformed window closes the window
is_active_time_failclosed(c) ==
    LET ps == strptime_HM(c.active_start)
        pe == strptime_HM(c.active_end)
    IN  IF ~ps.ok \/ ~pe.ok THEN FALSE
        ELSE is_within_time_range(ps.t, pe.t, now)

\* mutant: the weekday set is not consulted
is_active_time_anyday(c) ==
    LET ps == strptime_HM(c.active_start)
        pe == strptime_HM(c.active_end)
    IN  IF ~ps.ok \/ ~pe.ok THEN TRUE
        ELSE LET active == is_within_time_range(ps.t, pe.t, now)
                 st == get_sun_times(c)
             IN  IF c.use_astral /\ st[1] # None /\ st[2] # None
                 THEN active /\ is_within_time_range(st[1], st[2], now)
                 ELSE active

\* mutant: sunrise and sunset replace the window instead of narrowing it
is_active_time_sunonly(c) ==
    LET ps == strptime_HM(c.active_start)
        pe == strptime_HM(c.active_end)
    IN  IF ~ps.ok \/ ~pe.ok THEN TRUE
        ELSE LET active == is_within_time_range(ps.t, pe.t, now)
                 days == c.active_days
                 st == get_sun_times(c)
             IN  IF days # <<>> /\ day_abbr[weekday + 1] \notin Range(days)
                 THEN FALSE
                 ELSE IF c.use_astral /\ st[1] # None /\ st[2] # None
                      THEN is_within_time_range(st[1], st[2], now)
                      ELSE active

\* mutant: unresolved sun times close the window
is_active_time_sunstrict(c) ==
    LET ps == strptime_HM(c.active_start)
        pe == strptime_HM(c.active_end)
    IN  IF ~ps.ok \/ ~pe.ok THEN TRUE
        ELSE LET active == is_within_time_range(ps.t, pe.t, now)
                 days == c.active_days
                 st == get_sun_times(c)
             IN  IF days # <<>> /\ day_abbr[weekday + 1] \notin Range(days)
                 THEN FALSE
                 ELSE IF c.use_astral
                      THEN /\ st[1] # None /\ st[2] # None
                           /\ active /\ is_within_time_range(st[1], st[2], now)
                      ELSE active

\* scheduler.is_active_time
is_active_time(c) ==
    LET ps == strptime_HM(c.active_start)
        pe == strptime_HM(c.active_end)
    IN  IF ~ps.ok \/ ~pe.ok THEN TRUE
        ELSE LET active == is_within_time_range(ps.t, pe.t, now)
                 days == c.active_days
                 st == get_sun_times(c)
             IN  IF days # <<>> /\ day_abbr[weekday + 1] \notin Range(days)
                 THEN FALSE
                 ELSE IF c.use_astral /\ st[1] # None /\ st[2] # None
                      THEN active /\ is_within_time_range(st[1], st[2], now)
                      ELSE active


(***************************************************************************)
(* Bounds of the model.                                                    *)
(***************************************************************************)
\* SSE connections that can be open at once
MaxClients == 1
\* messages a connection's queue holds before its event_generator reads one
MaxQueue == 1
\* images counted in the cached image statistics
MaxImages == 1
\* job functions the thread pool of the scheduler runs at once
MaxRunning == 1

Ids == 1..MaxClients

STATUS_HEARTBEAT_SECONDS == 10
CAMERA_HEALTHCHECK_SECONDS == 60

Jobs == {"job_snapshot", "job_status_heartbeat", "job_camera_healthcheck"}

(***************************************************************************)
(* Strings of the configuration and of the settings form, as sequences of  *)
(* characters.                                                             *)
(***************************************************************************)
DigitChar(n) ==
    CASE n = 0 -> "0" [] n = 1 -> "1" [] n = 2 -> "2" [] n = 3 -> "3"
      [] n = 4 -> "4" [] n = 5 -> "5" [] n = 6 -> "6" [] n = 7 -> "7"
      [] n = 8 -> "8" [] n = 9 -> "9"

\* what an <input type="time"> submits: two digits, a colon, two digits
HHMM(h, m) == <<DigitChar(h \div 10), DigitChar(h % 10), ":",
                DigitChar(m \div 10), DigitChar(m % 10)>>

WellFormedTimes == {HHMM(0, 0), HHMM(6, 0), HHMM(18, 0), HHMM(22, 0), HHMM(23, 59),
                    <<"6", ":", "5">>}

MalformedTimes == {<< >>, <<"2", "4", ":", "0", "0">>, <<"0", "6", "0", "0">>,
                   <<"1", "2", ":", "6", "0">>}

TimeStrings == WellFormedTimes \cup MalformedTimes

DaySets == {<< >>, <<"Mon", "Tue", "Wed", "Thu", "Fri">>, <<"Sat", "Sun">>}

\* models.ConfigModel with its defaults
DefaultConfig ==
    [interval_seconds |-> 10,
     active_start |-> HHMM(6, 0),
     active_end |-> HHMM(18, 0),
     active_days |-> <<"Mon", "Tue", "Wed", "Thu", "Fri">>,
     use_astral |-> FALSE,
     paused |-> FALSE]

\* the settings forms submitted to POST /update
Forms ==
    {[INTERVAL_SECONDS |-> 30, ACTIVE_START |-> HHMM(0, 0),
      ACTIVE_END |-> <<"2", "4", ":", "0", "0">>,
      ACTIVE_DAYS |-> << >>, USE_ASTRAL |-> TRUE],
     [INTERVAL_SECONDS |-> 5, ACTIVE_START |-> <<"0", "6", "0", "0">>,
      ACTIVE_END |-> HHMM(18, 0),
      ACTIVE_DAYS |-> <<"Mon", "Tue", "Wed", "Thu", "Fri">>, USE_ASTRAL |-> FALSE]}

\* clock readings of the scheduler runs, <<time of day, weekday>>, within one week
ClockSamples == {<<Time(12, 0, 0), 0>>, <<Time(5, 0, 0), 5>>}

\* clock readings and astral outcomes of the window evaluation
NowSamples == {Time(0, 0, 0), Time(5, 0, 0), Time(6, 0, 0), Time(12, 0, 0),
               Time(18, 0, 0), Time(18, 0, 30), Time(21, 0, 0), Time(22, 0, 0),
               Time(23, 59, 30)}

WeekdaySamples == {0, 4, 5}

AstralSamples ==
    {[exc |-> TRUE],
     [sunrise |-> Time(6, 0, 0), sunset |-> Time(20, 0, 0)],
     [sunrise |-> None, sunset |-> Time(20, 0, 0)],
     [sunrise |-> Time(6, 0, 0), sunset |-> None],
     [sunrise |-> None, sunset |-> None]}

\* results of downloader.check_camera_health
ProbeResults ==
    {[ok |-> TRUE, code |-> "200", message |-> "Camera reachable"],
     [ok |-> FALSE, code |-> "exception", message |-> "timed out"]}

(***************************************************************************)
(* Messages handed to broadcast.                                           *)
(***************************************************************************)
SnapshotMsg(r) == [type |-> "snapshot", filename |-> r.filename,
                   timestamp |-> r.timestamp, timestamp_full |-> r.timestamp_full]

CameraErrorMsg == [type |-> "camera_error", code |-> "snapshot_failed",
                   message |-> "Snapshot failed"]

\* mutant: the status message carries another discriminator
StatusMsg_state(s) == [type |-> "state", status |-> s]

StatusMsg(s) == [type |-> "status", status |-> s]

HealthMsg(res, checked_at) ==
    [type |-> "camera_health", status |-> IF res.ok THEN "ok" ELSE "error",
     code |-> res.code, message |-> res.message, checked_at |-> checked_at]

\* the dict take_snapshot returns for a fetch started at clock reading at = <<time, weekday>>
SnapshotResult(at) ==
    [filename |-> <<"snapshot", at[2], Secs(at[1])>>,
     timestamp |-> at[1],
     timestamp_full |-> <<at[2], at[1].hour, at[1].minute>>]


(***************************************************************************)
(* Runtime state store (runtime_state.py).  Each operator is the new value *)
(* of the one slot the function assigns.                                   *)
(***************************************************************************)
\* mutant: empty values are stored as no error
set_camera_error_falsy(code, message) ==
    IF code = "" /\ message = "" THEN None ELSE [code |-> code, message |-> message]

set_camera_error(code, message) == [code |-> code, message |-> message]

clear_camera_error == None

set_camera_health(status, code, message, checked_at) ==
    [status |-> status, code |-> code, message |-> message, checked_at |-> checked_at]

set_image_stats(count, last_snapshot, last_snapshot_full) ==
    [count |-> count, last_snapshot |-> last_snapshot,
     last_snapshot_full |-> last_snapshot_full]

\* int(stats.get("count") or 0) of main.action_snapshot, stats = get_image_stats() or {}
CachedCount(stats) == IF stats = None THEN 0 ELSE stats.count

(***************************************************************************)
(* broadcast_manager.broadcast run by a handler of the event loop: put on  *)
(* an unbounded asyncio.Queue does not suspend, so no other handler runs   *)
(* inside it.  cl is the subscriber set, qs the queues; the result is both *)
(* after the call.                                                         *)
(***************************************************************************)
HasRoom(qs, cl) == \A c \in cl \ broken : Len(qs[c]) < MaxQueue

broadcast(cl, qs, message) ==
    [clients |-> cl \ broken,
     queues |-> [c \in DOMAIN qs |->
                    IF c \in cl \ broken THEN Append(qs[c], message) ELSE qs[c]]]

(***************************************************************************)
(* Worker threads of the BackgroundScheduler.                              *)
(*   pc      "idle", "due" (submitted to the thread pool by a timer, the   *)
(*           job function not yet entered), "fetching" (in take_snapshot), *)
(*           "probing" (in                                                 *)
(*           check_camera_health), "iter" (in the for loop of broadcast),  *)
(*           "drop" (before the loop that removes the dead subscribers)    *)
(*   by      the timer that fired the run                                  *)
(*   gate    how the run passed the gates of job_snapshot                  *)
(*   fetches calls of take_snapshot in the run                             *)
(*   at      clock reading taken by take_snapshot                          *)
(*   result  what take_snapshot returned                                   *)
(*   msg     the message the run handed to broadcast                       *)
(*   snap, seen, dead   the set iterator of broadcast: membership when the *)
(*           iteration began, subscribers visited, the list dead           *)
(*   err     the exception broadcast raised in the last run                *)
(*   raised  whether that exception left the job function                  *)
(***************************************************************************)
Idle == [pc |-> "idle", by |-> None, gate |-> "none", fetches |-> 0, at |-> None,
         result |-> None, msg |-> None, snap |-> {}, seen |-> {}, dead |-> << >>,
         err |-> "none", raised |-> FALSE]

cap == job["job_snapshot"]
hb == job["job_status_heartbeat"]
hc == job["job_camera_healthcheck"]

Armed(j) == {t \in timers : t.job = j}

\* asyncio.run(broadcast(message)) entered by thread j: the for loop creates the
\* iterator of the set clients
BeginBroadcast(th, message) ==
    [th EXCEPT !.pc = "iter", !.msg = message, !.snap = clients,
               !.seen = {}, !.dead = << >>]

\* what stays of a run when its job function is left
Left(th) == [Idle EXCEPT !.gate = th.gate, !.err = th.err, !.raised = th.raised]

\* broadcast returned to job j
Returned(j) ==
    /\ job' = [job EXCEPT ![j] = Left(@)]
    /\ camera_error' = IF j = "job_snapshot" /\ job[j].result # None
                       THEN clear_camera_error
                       ELSE camera_error

\* broadcast raised e in job j.  job_snapshot guards only the broadcast of its
\* failure branch, the other two jobs theirs, and each catches RuntimeError alone:
\* the exception is logged there or leaves the job function, and in both cases no
\* statement of the job runs after it
Raised(j, e) ==
    LET guarded == ~(j = "job_snapshot" /\ job[j].result # None)
    IN  /\ job' = [job EXCEPT ![j] = Left([@ EXCEPT !.err = e,
                                 !.raised = ~(guarded /\ e = "RuntimeError")])]
        /\ UNCHANGED camera_error

\* a timer of the running scheduler comes due: its job is submitted to the thread
\* pool (one instance of a job at a time)
TimerFires(j) ==
    /\ job[j].pc = "idle"
    /\ Cardinality({k \in Jobs : job[k].pc # "idle"}) < MaxRunning
    /\ \E t \in Armed(j) : job' = [job EXCEPT ![j] = [Idle EXCEPT !.pc = "due", !.by = t]]
    /\ UNCHANGED <<cfg, is_paused, scheduler, timers, app, camera_error,
                   camera_health, image_stats, clients, queues, conns, broken, us,
                   now, weekday, astral, status_resp, loop,
                   login_state, monotonic, login_resp>>

\* mutant: the paused flag is not consulted
JobSnapshot_nopause ==
    /\ job["job_snapshot"].pc = "due"
    /\ LET t == job["job_snapshot"].by IN
          job' = [job EXCEPT !["job_snapshot"] =
                    IF ~is_active_time(cfg)
                    THEN [Idle EXCEPT !.gate = "outside"]
                    ELSE [Idle EXCEPT !.by = t, !.gate = "open", !.pc = "fetching",
                                      !.fetches = 1, !.at = [clock |-> <<now, weekday>>]]]
    /\ UNCHANGED <<cfg, is_paused, scheduler, timers, app, camera_error,
                   camera_health, image_stats, clients, queues, conns, broken, us,
                   now, weekday, astral, status_resp, loop,
                   login_state, monotonic, login_resp>>

\* job_snapshot up to the call of take_snapshot
JobSnapshot ==
    /\ job["job_snapshot"].pc = "due"
    /\ LET t == job["job_snapshot"].by IN
          job' = [job EXCEPT !["job_snapshot"] =
                    IF is_paused
                    THEN [Idle EXCEPT !.gate = "paused"]
                    ELSE IF ~is_active_time(cfg)
                    THEN [Idle EXCEPT !.gate = "outside"]
                    ELSE [Idle EXCEPT !.by = t, !.gate = "open", !.pc = "fetching",
                                      !.fetches = 1, !.at = [clock |-> <<now, weekday>>]]]
    /\ UNCHANGED <<cfg, is_paused, scheduler, timers, app, camera_error,
                   camera_health, image_stats, clients, queues, conns, broken, us,
                   now, weekday, astral, status_resp, loop,
                   login_state, monotonic, login_resp>>

\* job_snapshot from the return of take_snapshot to the call of broadcast
JobSnapshotFetched(ok) ==
    /\ job["job_snapshot"].pc = "fetching"
    /\ IF ok
       THEN /\ job' = [job EXCEPT !["job_snapshot"] =
                         BeginBroadcast([cap EXCEPT !.result = SnapshotResult(cap.at.clock)],
                                        SnapshotMsg(SnapshotResult(cap.at.clock)))]
            /\ UNCHANGED camera_error
       ELSE /\ camera_error' = set_camera_error("snapshot_failed", "Snapshot failed")
            /\ job' = [job EXCEPT !["job_snapshot"] = BeginBroadcast(@, CameraErrorMsg)]
    /\ UNCHANGED <<cfg, is_paused, scheduler, timers, app, camera_health,
                   image_stats, clients, queues, conns, broken, us,
                   now, weekday, astral, status_resp, loop,
                   login_state, monotonic, login_resp>>

\* mutant: the window is consulted before the paused flag
JobStatusHeartbeat_windowfirst ==
    /\ job["job_status_heartbeat"].pc = "due"
    /\ LET t == job["job_status_heartbeat"].by IN
          job' = [job EXCEPT !["job_status_heartbeat"] =
                    BeginBroadcast([Idle EXCEPT !.by = t],
                        StatusMsg(IF ~is_active_time(cfg) THEN "waiting_window"
                                  ELSE IF is_paused THEN "paused"
                                  ELSE "running"))]
    /\ UNCHANGED <<cfg, is_paused, scheduler, timers, app, camera_error,
                   camera_health, image_stats, clients, queues, conns, broken, us,
                   now, weekday, astral, status_resp, loop,
                   login_state, monotonic, login_resp>>

\* job_status_heartbeat up to the call of broadcast
JobStatusHeartbeat ==
    /\ job["job_status_heartbeat"].pc = "due"
    /\ LET t == job["job_status_heartbeat"].by IN
          job' = [job EXCEPT !["job_status_heartbeat"] =
                    BeginBroadcast([Idle EXCEPT !.by = t],
                        StatusMsg(IF is_paused THEN "paused"
                                  ELSE IF is_active_time(cfg) THEN "running"
                                  ELSE "waiting_window"))]
    /\ UNCHANGED <<cfg, is_paused, scheduler, timers, app, camera_error,
                   camera_health, image_stats, clients, queues, conns, broken, us,
                   now, weekday, astral, status_resp, loop,
                   login_state, monotonic, login_resp>>

\* job_camera_healthcheck up to the call of check_camera_health
JobCameraHealthcheck ==
    /\ job["job_camera_healthcheck"].pc = "due"
    /\ LET t == job["job_camera_healthcheck"].by IN
          job' = [job EXCEPT !["job_camera_healthcheck"] =
                    [Idle EXCEPT !.by = t, !.pc = "probing"]]
    /\ UNCHANGED <<cfg, is_paused, scheduler, timers, app, camera_error,
                   camera_health, image_stats, clients, queues, conns, broken, us,
                   now, weekday, astral, status_resp, loop,
                   login_state, monotonic, login_resp>>

\* mutant: a successful probe leaves the camera error in place
JobCameraHealthcheckProbed_noclear(res) ==
    /\ job["job_camera_healthcheck"].pc = "probing"
    /\ UNCHANGED camera_error
    /\ camera_health' = set_camera_health(IF res.ok THEN "ok" ELSE "error",
                                          res.code, res.message, <<now, weekday>>)
    /\ job' = [job EXCEPT !["job_camera_healthcheck"] =
                 BeginBroadcast([hc EXCEPT !.result = res],
                                HealthMsg(res, <<now, weekday>>))]
    /\ UNCHANGED <<cfg, is_paused, scheduler, timers, app, image_stats, clients,
                   queues, conns, broken, us, now, weekday, astral, status_resp,
                   loop,
                   login_state, monotonic, login_resp>>

\* mutant: every probe clears the camera error
JobCameraHealthcheckProbed_clearany(res) ==
    /\ job["job_camera_healthcheck"].pc = "probing"
    /\ camera_error' = clear_camera_error
    /\ camera_health' = set_camera_health(IF res.ok THEN "ok" ELSE "error",
                                          res.code, res.message, <<now, weekday>>)
    /\ job' = [job EXCEPT !["job_camera_healthcheck"] =
                 BeginBroadcast([hc EXCEPT !.result = res],
                                HealthMsg(res, <<now, weekday>>))]
    /\ UNCHANGED <<cfg, is_paused, scheduler, timers, app, image_stats, clients,
                   queues, conns, broken, us, now, weekday, astral, status_resp,
                   loop,
                   login_state, monotonic, login_resp>>

\* job_camera_healthcheck from the return of check_camera_health to the call of
\* broadcast
JobCameraHealthcheckProbed(res) ==
    /\ job["job_camera_healthcheck"].pc = "probing"
    /\ camera_error' = IF res.ok THEN clear_camera_error ELSE camera_error
    /\ camera_health' = set_camera_health(IF res.ok THEN "ok" ELSE "error",
                                          res.code, res.message, <<now, weekday>>)
    /\ job' = [job EXCEPT !["job_camera_healthcheck"] =
                 BeginBroadcast([hc EXCEPT !.result = res],
                                HealthMsg(res, <<now, weekday>>))]
    /\ UNCHANGED <<cfg, is_paused, scheduler, timers, app, image_stats, clients,
                   queues, conns, broken, us, now, weekday, astral, status_resp,
                   loop,
                   login_state, monotonic, login_resp>>

(***************************************************************************)
(* One turn of "for client in clients" in thread j.  The set iterator      *)
(* raises RuntimeError when the set's size differs from the size it had    *)
(* when the iteration began; otherwise it yields a member not yet visited  *)
(* or stops.  A member added since the iteration began is visited or       *)
(* missed, depending on the slot it landed in.                             *)
(***************************************************************************)
BroadcastNext(j) ==
    /\ job[j].pc = "iter"
    /\ IF Cardinality(clients) # Cardinality(job[j].snap)
       THEN /\ Raised(j, "RuntimeError")
            /\ UNCHANGED <<clients, queues>>
       ELSE \/ \E c \in clients \ job[j].seen :
                 /\ c \in broken \/ Len(queues[c]) < MaxQueue
                 /\ job' = [job EXCEPT ![j].seen = @ \cup {c},
                                       ![j].dead = IF c \in broken THEN Append(@, c)
                                                   ELSE @]
                 /\ queues' = IF c \in broken THEN queues
                              ELSE [queues EXCEPT ![c] = Append(@, job[j].msg)]
                 /\ UNCHANGED <<clients, camera_error>>
            \/ /\ (job[j].snap \cap clients) \subseteq job[j].seen
               /\ IF job[j].dead = << >>
                  THEN Returned(j)
                  ELSE /\ job' = [job EXCEPT ![j].pc = "drop"]
                       /\ UNCHANGED camera_error
               /\ UNCHANGED <<clients, queues>>
    /\ UNCHANGED <<cfg, is_paused, scheduler, timers, app, camera_health,
                   image_stats, conns, broken, us, now, weekday, astral, status_resp,
                   loop,
                   login_state, monotonic, login_resp>>

\* "for d in dead: clients.remove(d)" in thread j; set.remove of a subscriber
\* that is gone raises KeyError after the removals before it
BroadcastDrop(j) ==
    /\ job[j].pc = "drop"
    /\ LET dead == job[j].dead
           gone == {i \in 1..Len(dead) : dead[i] \notin clients}
       IN  IF gone = {}
           THEN /\ clients' = clients \ Range(dead)
                /\ Returned(j)
           ELSE LET k == CHOOSE i \in gone : \A i2 \in gone : i <= i2
                IN  /\ clients' = clients \ {dead[i] : i \in 1..(k - 1)}
                    /\ Raised(j, "KeyError")
    /\ UNCHANGED <<cfg, is_paused, scheduler, timers, app, camera_health,
                   image_stats, queues, conns, broken, us, now, weekday, astral,
                   status_resp, loop,
                   login_state, monotonic, login_resp>>


(***************************************************************************)
(* start_scheduler and stop_scheduler (scheduler.py), on the pair          *)
(* st = [scheduler, timers].  BackgroundScheduler.shutdown(wait=False)     *)
(* disarms the instance's jobs and leaves a running job function alone.    *)
(***************************************************************************)
shutdown(st) == {t \in st.timers : t.sched # st.scheduler.id}

NewId(tm) == CHOOSE g \in 1..(Cardinality(tm) + 1) :
                /\ \A t \in tm : t.sched # g
                /\ \A g2 \in 1..(g - 1) : \E t \in tm : t.sched = g2

\* mutant: the instance is forgotten without being shut down
stop_scheduler_leak(st) ==
    IF st.scheduler # None
    THEN [scheduler |-> None, timers |-> st.timers]
    ELSE st

stop_scheduler(st) ==
    IF st.scheduler # None
    THEN [scheduler |-> None, timers |-> shutdown(st)]
    ELSE st

\* mutant: the health timer is not added
start_scheduler_nohealth(st, c) ==
    LET tm == IF st.scheduler # None THEN shutdown(st) ELSE st.timers
        id == NewId(tm)
    IN  [scheduler |-> [id |-> id],
         timers |-> tm \cup
            {[sched |-> id, job |-> "job_snapshot", seconds |-> c.interval_seconds],
             [sched |-> id, job |-> "job_status_heartbeat",
              seconds |-> STATUS_HEARTBEAT_SECONDS]}]

\* mutant: a running instance is not shut down before the new one is made
start_scheduler_noshutdown(st, c) ==
    LET tm == st.timers
        id == NewId(tm)
    IN  [scheduler |-> [id |-> id],
         timers |-> tm \cup
            {[sched |-> id, job |-> "job_snapshot", seconds |-> c.interval_seconds],
             [sched |-> id, job |-> "job_status_heartbeat",
              seconds |-> STATUS_HEARTBEAT_SECONDS],
             [sched |-> id, job |-> "job_camera_healthcheck",
              seconds |-> CAMERA_HEALTHCHECK_SECONDS]}]

start_scheduler(st, c) ==
    LET tm == IF st.scheduler # None THEN shutdown(st) ELSE st.timers
        id == NewId(tm)
    IN  [scheduler |-> [id |-> id],
         timers |-> tm \cup
            {[sched |-> id, job |-> "job_snapshot", seconds |-> c.interval_seconds],
             [sched |-> id, job |-> "job_status_heartbeat",
              seconds |-> STATUS_HEARTBEAT_SECONDS],
             [sched |-> id, job |-> "job_camera_healthcheck",
              seconds |-> CAMERA_HEALTHCHECK_SECONDS]}]

Sched == [scheduler |-> scheduler, timers |-> timers]

(***************************************************************************)
(* Handlers of the event loop (main.py).                                   *)
(***************************************************************************)
\* a handler of the event loop can run: update_settings is not between two of its
\* assignments, where it does not await, and action_snapshot is not inside
\* take_snapshot
LoopFree == us.pc # "assigning" /\ loop = None

\* startup_event
StartupEvent ==
    /\ app = "init"
    /\ app' = "up"
    /\ LET st == start_scheduler(Sched, cfg)
       IN  scheduler' = st.scheduler /\ timers' = st.timers
    /\ UNCHANGED <<cfg, is_paused, camera_error, camera_health, image_stats,
                   clients, queues, conns, broken, job, us, now, weekday, astral,
                   status_resp, loop,
                   login_state, monotonic, login_resp>>

\* shutdown_event
ShutdownEvent ==
    /\ app = "up"
    /\ us.pc = "idle"
    /\ LoopFree
    /\ app' = "down"
    /\ LET st == stop_scheduler(Sched)
       IN  scheduler' = st.scheduler /\ timers' = st.timers
    /\ UNCHANGED <<cfg, is_paused, camera_error, camera_health, image_stats,
                   clients, queues, conns, broken, job, us, now, weekday, astral,
                   status_resp, loop,
                   login_state, monotonic, login_resp>>

\* the assignments of update_settings to the shared configuration
ApplyForm(c, f) ==
    [c EXCEPT !.interval_seconds = f.INTERVAL_SECONDS,
              !.active_start = f.ACTIVE_START,
              !.active_end = f.ACTIVE_END,
              !.active_days = f.ACTIVE_DAYS,
              !.use_astral = f.USE_ASTRAL]

\* mutant: the first assignment also resets the paused field
AssignField_unpause(c, f, k) ==
    CASE k = 1 -> [c EXCEPT !.interval_seconds = f.INTERVAL_SECONDS, !.paused = FALSE]
      [] k = 2 -> [c EXCEPT !.active_start = f.ACTIVE_START]
      [] k = 3 -> [c EXCEPT !.active_end = f.ACTIVE_END]
      [] k = 4 -> [c EXCEPT !.active_days = f.ACTIVE_DAYS]
      [] k = 5 -> [c EXCEPT !.use_astral = f.USE_ASTRAL]

\* the k-th of these assignments, in the order of the code
AssignField(c, f, k) ==
    CASE k = 1 -> [c EXCEPT !.interval_seconds = f.INTERVAL_SECONDS]
      [] k = 2 -> [c EXCEPT !.active_start = f.ACTIVE_START]
      [] k = 3 -> [c EXCEPT !.active_end = f.ACTIVE_END]
      [] k = 4 -> [c EXCEPT !.active_days = f.ACTIVE_DAYS]
      [] k = 5 -> [c EXCEPT !.use_astral = f.USE_ASTRAL]

NumFields == 5

\* update_settings from its entry to its first assignment to a field the scheduler
\* reads; the object cfg is shared with the timer threads, which run between the
\* assignments
UpdateSettings(f) ==
    /\ app = "up"
    /\ us.pc = "idle"
    /\ LoopFree
    /\ cfg' = AssignField(cfg, f, 1)
    /\ us' = [pc |-> "assigning", form |-> f, done |-> 1, old |-> cfg]
    /\ UNCHANGED <<is_paused, scheduler, timers, app, camera_error, camera_health,
                   image_stats, clients, queues, conns, broken, job, now, weekday,
                   astral, status_resp, loop,
                   login_state, monotonic, login_resp>>

\* the next assignment of update_settings
UpdateSettingsAssign ==
    /\ us.pc = "assigning"
    /\ us.done < NumFields
    /\ cfg' = AssignField(cfg, us.form, us.done + 1)
    /\ us' = [us EXCEPT !.done = @ + 1]
    /\ UNCHANGED <<is_paused, scheduler, timers, app, camera_error, camera_health,
                   image_stats, clients, queues, conns, broken, job, now, weekday,
                   astral, status_resp, loop,
                   login_state, monotonic, login_resp>>

\* update_settings from save_config to "await asyncio.to_thread(check_camera_health,
\* cfg)": stop_scheduler() and start_scheduler()
UpdateSettingsReload ==
    /\ us.pc = "assigning"
    /\ us.done = NumFields
    /\ LET st == start_scheduler(stop_scheduler(Sched), cfg)
       IN  scheduler' = st.scheduler /\ timers' = st.timers
    /\ us' = [pc |-> "probing"]
    /\ UNCHANGED <<cfg, is_paused, app, camera_error, camera_health, image_stats,
                   clients, queues, conns, broken, job, now, weekday, astral,
                   status_resp, loop,
                   login_state, monotonic, login_resp>>

\* update_settings from the result of the health check to the redirect
UpdateSettingsProbed(res) ==
    /\ us.pc = "probing"
    /\ LoopFree
    /\ LET b1 == broadcast(clients, queues, HealthMsg(res, <<now, weekday>>))
           b2 == broadcast(b1.clients, b1.queues, StatusMsg("config_reloaded"))
       IN  /\ HasRoom(queues, clients)
           /\ clients' = b2.clients
           /\ queues' = b2.queues
    /\ camera_error' = IF res.ok THEN clear_camera_error ELSE camera_error
    /\ camera_health' = set_camera_health(IF res.ok THEN "ok" ELSE "error",
                                          res.code, res.message, <<now, weekday>>)
    /\ us' = [pc |-> "idle"]
    /\ UNCHANGED <<cfg, is_paused, scheduler, timers, app, image_stats, conns,
                   broken, job, now, weekday, astral, status_resp, loop,
                   login_state, monotonic, login_resp>>

\* mutant: pausing shuts the scheduler down
ActionPauseResume_stops(value) ==
    /\ app = "up"
    /\ LoopFree
    /\ HasRoom(queues, clients)
    /\ is_paused' = value
    /\ cfg' = [cfg EXCEPT !.paused = value]
    /\ LET st == IF value THEN stop_scheduler(Sched) ELSE Sched
       IN  scheduler' = st.scheduler /\ timers' = st.timers
    /\ LET b == broadcast(clients, queues,
                          StatusMsg(IF value THEN "paused" ELSE "running"))
       IN  clients' = b.clients /\ queues' = b.queues
    /\ UNCHANGED <<app, camera_error, camera_health, image_stats, conns, broken,
                   job, us, now, weekday, astral, status_resp, loop,
                   login_state, monotonic, login_resp>>

\* set_paused(value) followed by the broadcast of action_pause / action_resume
ActionPauseResume(value) ==
    /\ app = "up"
    /\ LoopFree
    /\ HasRoom(queues, clients)
    /\ is_paused' = value
    /\ cfg' = [cfg EXCEPT !.paused = value]
    /\ LET b == broadcast(clients, queues,
                          StatusMsg(IF value THEN "paused" ELSE "running"))
       IN  clients' = b.clients /\ queues' = b.queues
    /\ UNCHANGED <<scheduler, timers, app, camera_error, camera_health,
                   image_stats, conns, broken, job, us, now, weekday, astral,
                   status_resp, loop,
                   login_state, monotonic, login_resp>>

\* action_pause
ActionPause == ActionPauseResume(TRUE)

\* action_resume
ActionResume == ActionPauseResume(FALSE)

\* mutant: the manual snapshot honours the gates of job_snapshot
ActionSnapshot_gated ==
    /\ app = "up"
    /\ LoopFree
    /\ HasRoom(queues, clients)
    /\ ~is_paused
    /\ is_active_time(cfg)
    /\ loop' = [handler |-> "action_snapshot", at |-> <<now, weekday>>]
    /\ UNCHANGED <<cfg, is_paused, scheduler, timers, app, camera_error,
                   camera_health, image_stats, clients, queues, conns, broken,
                   job, us, now, weekday, astral, status_resp,
                   login_state, monotonic, login_resp>>

\* action_snapshot up to the request of take_snapshot, which the handler calls
\* directly: the event loop runs nothing else until it returns
ActionSnapshot ==
    /\ app = "up"
    /\ LoopFree
    /\ HasRoom(queues, clients)
    /\ loop' = [handler |-> "action_snapshot", at |-> <<now, weekday>>]
    /\ UNCHANGED <<cfg, is_paused, scheduler, timers, app, camera_error,
                   camera_health, image_stats, clients, queues, conns, broken,
                   job, us, now, weekday, astral, status_resp,
                   login_state, monotonic, login_resp>>

\* action_snapshot from the return of take_snapshot; ok is whether it returns a
\* result
ActionSnapshotFetched(ok) ==
    /\ loop # None
    /\ HasRoom(queues, clients)
    /\ LET result == SnapshotResult(loop.at)
           b == broadcast(clients, queues,
                          IF ok THEN SnapshotMsg(result) ELSE CameraErrorMsg)
       IN  /\ clients' = b.clients
           /\ queues' = b.queues
           /\ IF ok
              THEN /\ CachedCount(image_stats) < MaxImages
                   /\ camera_error' = clear_camera_error
                   /\ image_stats' = set_image_stats(CachedCount(image_stats) + 1,
                                         result.timestamp, result.timestamp_full)
              ELSE /\ camera_error' = set_camera_error("snapshot_failed",
                                                       "Snapshot failed")
                   /\ UNCHANGED image_stats
    /\ loop' = None
    /\ UNCHANGED <<cfg, is_paused, scheduler, timers, app, camera_health, conns,
                   broken, job, us, now, weekday, astral, status_resp,
                   login_state, monotonic, login_resp>>

\* status: the fields of the response that come from the scheduler and the
\* runtime state
Status ==
    /\ LoopFree
    /\ status_resp' = [active |-> is_active_time(cfg), paused |-> is_paused,
                       camera_error |-> camera_error,
                       camera_health |-> camera_health]
    /\ UNCHANGED <<cfg, is_paused, scheduler, timers, app, camera_error,
                   camera_health, image_stats, clients, queues, conns, broken,
                   job, us, now, weekday, astral, loop,
                   login_state, monotonic, login_resp>>

\* sse_events: a dashboard opens its event stream
SseConnect(c) ==
    /\ app = "up"
    /\ LoopFree
    /\ c \notin conns
    /\ conns' = conns \cup {c}
    /\ clients' = clients \cup {c}
    /\ queues' = [queues EXCEPT ![c] = << >>]
    /\ UNCHANGED <<cfg, is_paused, scheduler, timers, app, camera_error,
                   camera_health, image_stats, broken, job, us, now, weekday,
                   astral, status_resp, loop,
                   login_state, monotonic, login_resp>>

\* event_generator: one message leaves the queue for the dashboard
SseDeliver(c) ==
    /\ c \in conns
    /\ LoopFree
    /\ queues[c] # << >>
    /\ queues' = [queues EXCEPT ![c] = Tail(@)]
    /\ UNCHANGED <<cfg, is_paused, scheduler, timers, app, camera_error,
                   camera_health, image_stats, clients, conns, broken, job, us,
                   now, weekday, astral, status_resp, loop,
                   login_state, monotonic, login_resp>>

\* event_generator is cancelled: the dashboard went away.  clients.remove(queue)
\* raises KeyError in place of the CancelledError when c is no longer in clients;
\* the generator ends either way
SseDisconnect(c) ==
    /\ c \in conns
    /\ LoopFree
    /\ conns' = conns \ {c}
    /\ clients' = clients \ {c}
    /\ broken' = broken \ {c}
    /\ queues' = [queues EXCEPT ![c] = << >>]
    /\ UNCHANGED <<cfg, is_paused, scheduler, timers, app, camera_error,
                   camera_health, image_stats, job, us, now, weekday, astral,
                   status_resp, loop,
                   login_state, monotonic, login_resp>>

(***************************************************************************)
(* Login throttling (main.py).  ls is _login_state, t the reading of        *)
(* monotonic() the function takes; the result of a function that assigns   *)
(* is _login_state after the call.                                         *)
(***************************************************************************)
LOGIN_WINDOW_SEC == 300

LOGIN_MAX_ATTEMPTS == 5

LOGIN_BLOCK_SEC == 60

\* the client addresses _client_ip returns
Ips == {"10.0.0.1", "10.0.0.2"}

prune_attempts(attempts, t) ==
    LET cutoff == t - LOGIN_WINDOW_SEC
        Keep(ts) == ts >= cutoff
    IN  SelectSeq(attempts, Keep)

\* _is_blocked: <<blocked, remaining>> and the state it leaves
is_blocked(ls, ip, t) ==
    IF ls[ip] = None
    THEN [blocked |-> FALSE, remaining |-> 0, state |-> ls]
    ELSE IF ls[ip].blocked_until > t
    THEN [blocked |-> TRUE,
          remaining |-> IF ls[ip].blocked_until - t > 1
                        THEN ls[ip].blocked_until - t ELSE 1,
          state |-> ls]
    ELSE [blocked |-> FALSE, remaining |-> 0,
          state |-> [ls EXCEPT ![ip] =
                       [attempts |-> prune_attempts(ls[ip].attempts, t),
                        blocked_until |-> 0]]]

\* mutant: the block lasts half as long
register_failure_short(ls, ip, t) ==
    LET state == IF ls[ip] = None THEN [attempts |-> << >>, blocked_until |-> 0]
                 ELSE ls[ip]
        attempts == Append(prune_attempts(state.attempts, t), t)
    IN  [ls EXCEPT ![ip] =
           [attempts |-> attempts,
            blocked_until |-> IF Len(attempts) >= LOGIN_MAX_ATTEMPTS
                              THEN t + 30
                              ELSE state.blocked_until]]

\* _register_failure
register_failure(ls, ip, t) ==
    LET state == IF ls[ip] = None THEN [attempts |-> << >>, blocked_until |-> 0]
                 ELSE ls[ip]
        attempts == Append(prune_attempts(state.attempts, t), t)
    IN  [ls EXCEPT ![ip] =
           [attempts |-> attempts,
            blocked_until |-> IF Len(attempts) >= LOGIN_MAX_ATTEMPTS
                              THEN t + LOGIN_BLOCK_SEC
                              ELSE state.blocked_until]]

\* _register_success
register_success(ls, ip) == [ls EXCEPT ![ip] = None]

\* login_submit for a request from ip; protected is whether an access password is
\* configured, correct whether the submitted password verifies.  The handler does
\* not suspend between _is_blocked and its return.
LoginSubmit(ip, protected, correct) ==
    /\ app = "up"
    /\ LoopFree
    /\ IF ~protected
       THEN /\ login_resp' = [ip |-> ip, outcome |-> "open", blocked |-> FALSE,
                              remaining |-> 0]
            /\ UNCHANGED login_state
       ELSE LET b == is_blocked(login_state, ip, monotonic) IN
            IF b.blocked
            THEN /\ login_resp' = [ip |-> ip, outcome |-> "blocked", blocked |-> TRUE,
                                   remaining |-> b.remaining]
                 /\ login_state' = b.state
            ELSE IF correct
            THEN /\ login_resp' = [ip |-> ip, outcome |-> "authenticated",
                                   blocked |-> FALSE, remaining |-> 0]
                 /\ login_state' = register_success(b.state, ip)
            ELSE LET b2 == is_blocked(register_failure(b.state, ip, monotonic),
                                      ip, monotonic)
                 IN  /\ login_resp' = [ip |-> ip, outcome |-> "wrong",
                                       blocked |-> b2.blocked,
                                       remaining |-> b2.remaining]
                     /\ login_state' = b2.state
    /\ UNCHANGED <<cfg, is_paused, scheduler, timers, app, camera_error,
                   camera_health, image_stats, clients, queues, conns, broken,
                   job, us, now, weekday, astral, status_resp, loop, monotonic>>

(***************************************************************************)
(* Environment.                                                            *)
(***************************************************************************)
\* the queue of connection c starts to raise on put
QueueBreaks(c) ==
    /\ c \in conns \ broken
    /\ broken' = broken \cup {c}
    /\ UNCHANGED <<cfg, is_paused, scheduler, timers, app, camera_error,
                   camera_health, image_stats, clients, queues, conns, job, us,
                   now, weekday, astral, status_resp, loop,
                   login_state, monotonic, login_resp>>

\* time passes: the clock moves on to a later reading
ClockAdvance(s) ==
    /\ s # <<now, weekday>>
    /\ s[2] > weekday
    /\ now' = s[1]
    /\ weekday' = s[2]
    /\ UNCHANGED <<cfg, is_paused, scheduler, timers, app, camera_error,
                   camera_health, image_stats, clients, queues, conns, broken,
                   job, us, astral, status_resp, loop,
                   login_state, monotonic, login_resp>>

\* the monotonic clock moves on to a later reading
MonotonicAdvance(t) ==
    /\ t > monotonic
    /\ monotonic' = t
    /\ UNCHANGED <<cfg, is_paused, scheduler, timers, app, camera_error,
                   camera_health, image_stats, clients, queues, conns, broken,
                   job, us, now, weekday, astral, status_resp, loop,
                   login_state, login_resp>>

(***************************************************************************)
(* Specifications.                                                         *)
(***************************************************************************)
\* the state after the modules are imported: cfg = load_config(), nothing started
Init ==
    /\ cfg = DefaultConfig
    /\ is_paused = cfg.paused
    /\ scheduler = None
    /\ timers = {}
    /\ app = "init"
    /\ camera_error = None
    /\ camera_health = None
    /\ image_stats = None
    /\ clients = {}
    /\ queues = [c \in Ids |-> << >>]
    /\ conns = {}
    /\ broken = {}
    /\ job = [j \in Jobs |-> Idle]
    /\ us = [pc |-> "idle"]
    /\ now = Time(12, 0, 0)
    /\ weekday = 0
    /\ astral = [sunrise |-> Time(6, 0, 0), sunset |-> Time(20, 0, 0)]
    /\ status_resp = None
    /\ loop = None
    /\ login_state = [ip \in Ips |-> None]
    /\ monotonic = 0
    /\ login_resp = None

\* the scheduler, the control plane and the runtime state, no dashboard connected
Next ==
    \/ StartupEvent
    \/ ShutdownEvent
    \/ \E f \in Forms : UpdateSettings(f)
    \/ UpdateSettingsAssign
    \/ UpdateSettingsReload
    \/ \E res \in ProbeResults : UpdateSettingsProbed(res)
    \/ ActionPause
    \/ ActionResume
    \/ ActionSnapshot
    \/ \E ok \in BOOLEAN : ActionSnapshotFetched(ok)
    \/ \E s \in ClockSamples : ClockAdvance(s)
    \/ \E j \in Jobs : TimerFires(j)
    \/ JobSnapshot
    \/ \E ok \in BOOLEAN : JobSnapshotFetched(ok)
    \/ JobStatusHeartbeat
    \/ JobCameraHealthcheck
    \/ \E res \in ProbeResults : JobCameraHealthcheckProbed(res)
    \/ \E j \in Jobs : BroadcastNext(j)

Spec == Init /\ [][Next]_vars

\* the scheduler under its initial configuration and clock, with dashboards
\* connecting, reading and going away
NextLive ==
    \/ StartupEvent
    \/ ActionPause
    \/ ActionResume
    \/ ActionSnapshot
    \/ \E ok \in BOOLEAN : ActionSnapshotFetched(ok)
    \/ \E c \in Ids : SseConnect(c)
    \/ \E c \in Ids : SseDeliver(c)
    \/ \E c \in Ids : SseDisconnect(c)
    \/ \E c \in Ids : QueueBreaks(c)
    \/ \E j \in Jobs : TimerFires(j)
    \/ JobSnapshot
    \/ \E ok \in BOOLEAN : JobSnapshotFetched(ok)
    \/ JobStatusHeartbeat
    \/ JobCameraHealthcheck
    \/ \E res \in ProbeResults : JobCameraHealthcheckProbed(res)
    \/ \E j \in Jobs : BroadcastNext(j)
    \/ \E j \in Jobs : BroadcastDrop(j)

SpecLive == Init /\ [][NextLive]_vars

\* the window evaluation on its own: any configuration, clock reading and astral
\* outcome, and the status endpoint evaluating the window
InitWindow ==
    /\ cfg \in {[DefaultConfig EXCEPT !.active_start = s, !.active_end = e,
                                      !.active_days = d, !.use_astral = a] :
                  s \in TimeStrings, e \in TimeStrings, d \in DaySets, a \in BOOLEAN}
    /\ is_paused = cfg.paused
    /\ scheduler = None
    /\ timers = {}
    /\ app = "up"
    /\ camera_error = None
    /\ camera_health = None
    /\ image_stats = None
    /\ clients = {}
    /\ queues = [c \in Ids |-> << >>]
    /\ conns = {}
    /\ broken = {}
    /\ job = [j \in Jobs |-> Idle]
    /\ us = [pc |-> "idle"]
    /\ now \in NowSamples
    /\ weekday \in WeekdaySamples
    /\ astral \in AstralSamples
    /\ status_resp = None
    /\ loop = None
    /\ login_state = [ip \in Ips |-> None]
    /\ monotonic = 0
    /\ login_resp = None

NextWindow == Status

SpecWindow == InitWindow /\ [][NextWindow]_vars

\* start_scheduler and stop_scheduler called in any order, under any capture
\* interval, with the timer threads running
Intervals == {5, 10, 30}

InitSched ==
    /\ cfg \in {[DefaultConfig EXCEPT !.interval_seconds = n, !.paused = p] :
                  n \in Intervals, p \in BOOLEAN}
    /\ is_paused = cfg.paused
    /\ scheduler = None
    /\ timers = {}
    /\ app = "up"
    /\ camera_error = None
    /\ camera_health = None
    /\ image_stats = None
    /\ clients = {}
    /\ queues = [c \in Ids |-> << >>]
    /\ conns = {}
    /\ broken = {}
    /\ job = [j \in Jobs |-> Idle]
    /\ us = [pc |-> "idle"]
    /\ now = Time(12, 0, 0)
    /\ weekday = 0
    /\ astral = [sunrise |-> Time(6, 0, 0), sunset |-> Time(20, 0, 0)]
    /\ status_resp = None
    /\ loop = None
    /\ login_state = [ip \in Ips |-> None]
    /\ monotonic = 0
    /\ login_resp = None

\* a call of start_scheduler()
StartScheduler ==
    /\ LET st == start_scheduler(Sched, cfg)
       IN  scheduler' = st.scheduler /\ timers' = st.timers
    /\ UNCHANGED <<cfg, is_paused, app, camera_error, camera_health, image_stats,
                   clients, queues, conns, broken, job, us, now, weekday, astral,
                   status_resp, loop,
                   login_state, monotonic, login_resp>>

\* a call of stop_scheduler()
StopScheduler ==
    /\ LET st == stop_scheduler(Sched)
       IN  scheduler' = st.scheduler /\ timers' = st.timers
    /\ UNCHANGED <<cfg, is_paused, app, camera_error, camera_health, image_stats,
                   clients, queues, conns, broken, job, us, now, weekday, astral,
                   status_resp, loop,
                   login_state, monotonic, login_resp>>

NextSched ==
    \/ StartScheduler
    \/ StopScheduler
    \/ \E s \in ClockSamples : ClockAdvance(s)
    \/ \E j \in Jobs : TimerFires(j)
    \/ JobSnapshot
    \/ \E ok \in BOOLEAN : JobSnapshotFetched(ok)
    \/ JobStatusHeartbeat
    \/ JobCameraHealthcheck
    \/ \E res \in ProbeResults : JobCameraHealthcheckProbed(res)
    \/ \E j \in Jobs : BroadcastNext(j)

SpecSched == InitSched /\ [][NextSched]_vars

\* update_settings, pause and resume and the timer threads with dashboards
\* connected, under one clock reading
NextNotify ==
    \/ StartupEvent
    \/ \E f \in Forms : UpdateSettings(f)
    \/ UpdateSettingsAssign
    \/ UpdateSettingsReload
    \/ \E res \in ProbeResults : UpdateSettingsProbed(res)
    \/ ActionPause
    \/ ActionResume
    \/ \E c \in Ids : SseConnect(c)
    \/ \E c \in Ids : SseDeliver(c)
    \/ \E c \in Ids : SseDisconnect(c)
    \/ \E j \in Jobs : TimerFires(j)
    \/ JobSnapshot
    \/ \E ok \in BOOLEAN : JobSnapshotFetched(ok)
    \/ JobStatusHeartbeat
    \/ JobCameraHealthcheck
    \/ \E res \in ProbeResults : JobCameraHealthcheckProbed(res)
    \/ \E j \in Jobs : BroadcastNext(j)

SpecNotify == Init /\ [][NextNotify]_vars

\* the functions of runtime_state called one at a time with any of their
\* arguments, and the status endpoint reading the slots through the getters
ErrorInputs == {<<"", "">>, <<"snapshot_failed", "Snapshot failed">>}

HealthInputs == {<<IF res.ok THEN "ok" ELSE "error", res.code, res.message, at>> :
                   res \in ProbeResults, at \in ClockSamples}

StatsInputs == {<<n, SnapshotResult(at).timestamp, SnapshotResult(at).timestamp_full>> :
                  n \in 0..MaxImages, at \in ClockSamples}

SetCameraError(code, message) ==
    /\ camera_error' = set_camera_error(code, message)
    /\ UNCHANGED <<cfg, is_paused, scheduler, timers, app, camera_health,
                   image_stats, clients, queues, conns, broken, job, us, now,
                   weekday, astral, status_resp, loop,
                   login_state, monotonic, login_resp>>

ClearCameraError ==
    /\ camera_error' = clear_camera_error
    /\ UNCHANGED <<cfg, is_paused, scheduler, timers, app, camera_health,
                   image_stats, clients, queues, conns, broken, job, us, now,
                   weekday, astral, status_resp, loop,
                   login_state, monotonic, login_resp>>

SetCameraHealth(status, code, message, checked_at) ==
    /\ camera_health' = set_camera_health(status, code, message, checked_at)
    /\ UNCHANGED <<cfg, is_paused, scheduler, timers, app, camera_error,
                   image_stats, clients, queues, conns, broken, job, us, now,
                   weekday, astral, status_resp, loop,
                   login_state, monotonic, login_resp>>

SetImageStats(count, last_snapshot, last_snapshot_full) ==
    /\ image_stats' = set_image_stats(count, last_snapshot, last_snapshot_full)
    /\ UNCHANGED <<cfg, is_paused, scheduler, timers, app, camera_error,
                   camera_health, clients, queues, conns, broken, job, us, now,
                   weekday, astral, status_resp, loop,
                   login_state, monotonic, login_resp>>

NextStore ==
    \/ \E e \in ErrorInputs : SetCameraError(e[1], e[2])
    \/ ClearCameraError
    \/ \E h \in HealthInputs : SetCameraHealth(h[1], h[2], h[3], h[4])
    \/ \E i \in StatsInputs : SetImageStats(i[1], i[2], i[3])
    \/ Status

SpecStore == Init /\ [][NextStore]_vars

\* the manual controls of the dashboard between two ticks: snapshot, pause and
\* resume, with dashboards connected and the clock moving
NextManual ==
    \/ StartupEvent
    \/ ActionPause
    \/ ActionResume
    \/ ActionSnapshot
    \/ \E ok \in BOOLEAN : ActionSnapshotFetched(ok)
    \/ \E c \in Ids : SseConnect(c)
    \/ \E c \in Ids : SseDeliver(c)
    \/ \E c \in Ids : SseDisconnect(c)
    \/ \E s \in ClockSamples : ClockAdvance(s)

SpecManual == Init /\ [][NextManual]_vars

\* the login form submitted from any address at any time, with and without the
\* right password
MonotonicSamples == {0, 30, 60, 330}

NextLogin ==
    \/ StartupEvent
    \/ \E ip \in Ips, protected \in BOOLEAN, correct \in BOOLEAN :
          LoginSubmit(ip, protected, correct)
    \/ \E t \in MonotonicSamples : MonotonicAdvance(t)

SpecLogin == Init /\ [][NextLogin]_vars


(***************************************************************************)
(* Properties.                                                             *)
(***************************************************************************)
Today == day_abbr[weekday + 1]

StartParsed == strptime_HM(cfg.active_start)
EndParsed == strptime_HM(cfg.active_end)
WindowParses == StartParsed.ok /\ EndParsed.ok

DayExcluded == cfg.active_days # << >> /\ Today \notin Range(cfg.active_days)

\* membership of the clock reading in the range from a to b, as the specification
\* words it
InRange(a, b) ==
    IF Secs(a) < Secs(b)
    THEN Secs(a) <= Secs(now) /\ Secs(now) <= Secs(b)
    ELSE Secs(now) >= Secs(a) \/ Secs(now) <= Secs(b)

\* what the evaluation yields when solar gating is off
NonSolarResult ==
    IF ~WindowParses THEN TRUE
    ELSE IF DayExcluded THEN FALSE
    ELSE InRange(StartParsed.t, EndParsed.t)

SunResolves == /\ "exc" \notin DOMAIN astral
               /\ astral.sunrise # None
               /\ astral.sunset # None

\* the job function of job j is entered in this step
Enters(j) == job[j].pc = "due" /\ job'[j].pc # "due"

\* the broadcast of job j ends in this step, by return or by exception
BroadcastEnds(j) == job[j].pc \in {"iter", "drop"} /\ job'[j].pc = "idle"

\* C1: a capture run entered while the paused flag is set fetches nothing, hands
\* nothing to broadcast and leaves the runtime state, the subscribers and their
\* queues as they are; a heartbeat run entered while the flag is set hands the
\* status message "paused" to broadcast.
C1_PauseGatesCaptureNotHeartbeat ==
    [][/\ (Enters("job_snapshot") /\ is_paused) =>
            /\ cap'.pc = "idle"
            /\ cap'.gate = "paused"
            /\ cap'.fetches = 0
            /\ cap'.msg = None
            /\ UNCHANGED <<camera_error, camera_health, image_stats, clients, queues>>
       /\ (Enters("job_status_heartbeat") /\ is_paused) =>
            /\ hb'.pc = "iter"
            /\ hb'.msg = StatusMsg("paused")]_vars

C1_Witness ==
    /\ is_paused
    /\ cap.pc = "idle"
    /\ cap.gate = "paused"
    /\ camera_error # None
    /\ hb.pc = "iter"
    /\ hb.msg = StatusMsg("paused")

\* C2: when a capture succeeds while the camera error of an earlier failed fetch
\* is recorded, whether in job_snapshot or in action_snapshot, the camera error is
\* None afterwards and the cached image count is one higher than before.
C2_SuccessClearsAndCounts ==
    [][(/\ camera_error # None
        /\ \/ ActionSnapshotFetched(TRUE)
           \/ BroadcastEnds("job_snapshot") /\ cap.result # None)
       => /\ camera_error' = None
          /\ CachedCount(image_stats') = CachedCount(image_stats) + 1]_vars

\* C3: a call of broadcast ends without an exception, having visited every
\* subscriber registered when it began, and leaves registered exactly those of
\* them whose put did not raise.
C3_BroadcastIsolatesFailures ==
    [][\A j \in Jobs :
          BroadcastEnds(j) =>
             /\ job'[j].err = "none"
             /\ job[j].seen = job[j].snap
             /\ clients' = job[j].snap \ Range(job[j].dead)]_vars

\* the timers start_scheduler arms for instance id under configuration c
ThreeTimers(id, c) ==
    {[sched |-> id, job |-> "job_snapshot", seconds |-> c.interval_seconds],
     [sched |-> id, job |-> "job_status_heartbeat",
      seconds |-> STATUS_HEARTBEAT_SECONDS],
     [sched |-> id, job |-> "job_camera_healthcheck",
      seconds |-> CAMERA_HEALTHCHECK_SECONDS]}

\* C4: the reload of update_settings, issued while the scheduler runs, leaves armed
\* the three timers of the new instance and no other, the capture timer with the
\* period of the new configuration; and a job is only ever submitted by a timer
\* that is armed in the current instance.
C4_ReloadArmsOneCaptureTimer ==
    /\ [][(us.pc = "assigning" /\ us'.pc = "probing" /\ scheduler # None) =>
            /\ scheduler' # None
            /\ timers' = ThreeTimers(scheduler'.id, cfg')
            /\ Cardinality({t \in timers' : t.job = "job_snapshot"}) = 1]_vars
    /\ [][\A j \in Jobs :
            (job[j].pc = "idle" /\ job'[j].pc = "due") =>
               /\ scheduler # None
               /\ job'[j].by \in timers
               /\ job'[j].by.sched = scheduler.id]_vars

C4_Witness ==
    /\ us.pc = "probing"
    /\ cfg.interval_seconds = 5
    /\ cap.pc = "fetching"
    /\ cap.by.seconds = 30
    /\ {t.seconds : t \in Armed("job_snapshot")} = {5}

\* C5: with a window that parses, no weekday set and solar gating off, the
\* evaluation is true exactly when start <= now <= end if start < end, and exactly
\* when now >= start or now <= end if start > end.
C5_WindowMembership ==
    (/\ status_resp # None
     /\ WindowParses
     /\ cfg.active_days = << >>
     /\ ~cfg.use_astral
     /\ Secs(StartParsed.t) # Secs(EndParsed.t))
    => status_resp.active =
          IF Secs(StartParsed.t) < Secs(EndParsed.t)
          THEN Secs(StartParsed.t) <= Secs(now) /\ Secs(now) <= Secs(EndParsed.t)
          ELSE Secs(now) >= Secs(StartParsed.t) \/ Secs(now) <= Secs(EndParsed.t)

C5_Witness ==
    /\ status_resp # None
    /\ cfg.active_start = HHMM(22, 0)
    /\ cfg.active_end = HHMM(6, 0)
    /\ cfg.active_days = << >>
    /\ ~cfg.use_astral
    /\ now = Time(23, 59, 30)
    /\ status_resp.active

\* C6 as stated: with a non-empty weekday set that lacks today, the evaluation is
\* false whatever the window, the time of day and the solar gating.
C6_WeekdayGateAnyWindow ==
    (status_resp # None /\ DayExcluded) => ~status_resp.active

\* C6: with a window that parses and a non-empty weekday set that lacks today, the
\* evaluation is false whatever the window, the time of day and the solar gating.
C6_WeekdayGate ==
    (status_resp # None /\ WindowParses /\ DayExcluded) => ~status_resp.active

C6_Witness ==
    /\ status_resp # None
    /\ cfg.active_start = HHMM(0, 0)
    /\ cfg.active_end = HHMM(23, 59)
    /\ cfg.active_days = <<"Sat", "Sun">>
    /\ weekday = 0
    /\ now = Time(12, 0, 0)
    /\ ~status_resp.active

\* C7 as stated: with solar gating on and both sun times resolved, the evaluation
\* is the value without solar gating and-ed with the membership of now in the
\* range from sunrise to sunset.
C7_SolarNarrowsAnyWindow ==
    (status_resp # None /\ cfg.use_astral /\ SunResolves)
    => status_resp.active = (NonSolarResult /\ InRange(astral.sunrise, astral.sunset))

\* C7: with a window that parses, solar gating on and both sun times resolved, the
\* evaluation is the value without solar gating and-ed with the membership of now
\* in the range from sunrise to sunset; so it is false at 05:00 under sunrise
\* 06:00 and sunset 20:00 with the window 00:00-23:59.
C7_SolarNarrows ==
    (status_resp # None /\ WindowParses /\ cfg.use_astral /\ SunResolves)
    => status_resp.active = (NonSolarResult /\ InRange(astral.sunrise, astral.sunset))

C7_Witness ==
    /\ status_resp # None
    /\ cfg.active_start = HHMM(0, 0)
    /\ cfg.active_end = HHMM(23, 59)
    /\ cfg.active_days = << >>
    /\ cfg.use_astral
    /\ astral = [sunrise |-> Time(6, 0, 0), sunset |-> Time(20, 0, 0)]
    /\ now = Time(5, 0, 0)
    /\ ~status_resp.active

\* C8: with solar gating on and the sun times unresolved (the calculation raised,
\* or sunrise or sunset is missing), the evaluation is the value it has without
\* solar gating.
C8_SolarFailureFallsBack ==
    (status_resp # None /\ cfg.use_astral /\ ~SunResolves)
    => status_resp.active = NonSolarResult

C8_Witness ==
    /\ status_resp # None
    /\ cfg.active_start = HHMM(0, 0)
    /\ cfg.active_end = HHMM(23, 59)
    /\ cfg.active_days = << >>
    /\ cfg.use_astral
    /\ astral = [sunrise |-> None, sunset |-> Time(20, 0, 0)]
    /\ now = Time(5, 0, 0)
    /\ status_resp.active

\* C9: while active_start or active_end does not parse, is_active_time is true,
\* and a capture run entered while not paused goes on to take_snapshot.
C9_MalformedWindowFailsOpen ==
    /\ [](~WindowParses => is_active_time(cfg))
    /\ [][(Enters("job_snapshot") /\ ~is_paused /\ ~WindowParses) =>
            /\ cap'.pc = "fetching"
            /\ cap'.gate = "open"
            /\ cap'.fetches = 1]_vars

C9_Witness ==
    /\ ~StartParsed.ok
    /\ DayExcluded
    /\ now = Time(5, 0, 0)
    /\ cap.pc = "fetching"
    /\ cap.gate = "open"
    /\ cap.at = [clock |-> <<now, weekday>>]

\* C10: a capture run that passes both gates calls take_snapshot once; a result
\* is handed to broadcast as one snapshot message and the camera error is None
\* when the run ends; a failure sets the camera error snapshot_failed and hands
\* one camera_error message to broadcast.
C10_CaptureOutcome ==
    [][/\ (Enters("job_snapshot") /\ cap'.gate = "open") =>
            cap'.pc = "fetching" /\ cap'.fetches = 1
       /\ (cap.pc = "fetching" /\ cap'.pc # "fetching") =>
            /\ cap'.pc = "iter"
            /\ cap'.fetches = 1
            /\ IF cap'.result # None
               THEN cap'.msg = SnapshotMsg(cap'.result)
               ELSE /\ cap'.msg = CameraErrorMsg
                    /\ camera_error' = [code |-> "snapshot_failed",
                                        message |-> "Snapshot failed"]
       /\ (BroadcastEnds("job_snapshot") /\ cap.result # None) =>
            camera_error' = None]_vars

\* the message of job j's run stays the one handed to broadcast until the run ends
OneMessage(j) == (job[j].pc \in {"iter", "drop"} /\ job'[j].pc \in {"iter", "drop"})
                    => job'[j].msg = job[j].msg

\* C11: a health tick whose probe succeeded stores health status 'ok' and clears
\* the camera error; one whose probe failed stores status 'error' and leaves the
\* camera error as it is; both hand to broadcast one camera_health message with
\* the status, code, message and checked-at that were stored.
C11_HealthTickOutcome ==
    [][/\ (hc.pc = "probing" /\ hc'.pc # "probing") =>
            /\ hc'.pc = "iter"
            /\ camera_health' # None
            /\ camera_health'.status = (IF hc'.result.ok THEN "ok" ELSE "error")
            /\ camera_health'.code = hc'.result.code
            /\ camera_health'.message = hc'.result.message
            /\ camera_error' = (IF hc'.result.ok THEN None ELSE camera_error)
            /\ hc'.msg = [type |-> "camera_health",
                          status |-> camera_health'.status,
                          code |-> camera_health'.code,
                          message |-> camera_health'.message,
                          checked_at |-> camera_health'.checked_at]
       /\ OneMessage("job_camera_healthcheck")
       /\ (BroadcastEnds("job_camera_healthcheck") /\ ~hc.result.ok) =>
             UNCHANGED camera_error]_vars

C11_Witness ==
    /\ hc.pc = "iter"
    /\ ~hc.result.ok
    /\ hc.msg.status = "error"
    /\ hc.msg.code = "exception"
    /\ camera_health.status = "error"
    /\ camera_error = [code |-> "snapshot_failed", message |-> "Snapshot failed"]

\* C12: a heartbeat tick hands to broadcast the status message 'paused' if the
\* paused flag is set, else 'running' if is_active_time holds for the
\* configuration, else 'waiting_window'; no step of the tick changes a runtime
\* state slot.
C12_HeartbeatStatus ==
    [][/\ Enters("job_status_heartbeat") =>
            /\ hb'.pc = "iter"
            /\ hb'.msg = [type |-> "status",
                          status |-> IF is_paused THEN "paused"
                                     ELSE IF is_active_time(cfg) THEN "running"
                                     ELSE "waiting_window"]
       /\ OneMessage("job_status_heartbeat")
       /\ (hb' # hb) => UNCHANGED <<camera_error, camera_health, image_stats>>]_vars

C12_Witness ==
    /\ hb.pc = "iter"
    /\ hb.msg = StatusMsg("waiting_window")
    /\ ~is_paused
    /\ WindowParses
    /\ camera_error # None

\* the steps the run of job j can take
TickStep(j) ==
    \/ j = "job_snapshot" /\ (JobSnapshot \/ \E ok \in BOOLEAN : JobSnapshotFetched(ok))
    \/ j = "job_status_heartbeat" /\ JobStatusHeartbeat
    \/ j = "job_camera_healthcheck"
         /\ (JobCameraHealthcheck \/ \E res \in ProbeResults : JobCameraHealthcheckProbed(res))
    \/ BroadcastNext(j)
    \/ BroadcastDrop(j)

\* C13: stop_scheduler leaves no timer armed and no run is submitted while the
\* scheduler is None, until start_scheduler makes a new instance; the stop leaves
\* the runs in progress as they are, and a run in progress can always take its
\* next step, whether the scheduler is stopped or not.
C13_StopCancelsTimersNotRuns ==
    /\ [](scheduler = None => timers = {} /\ \A j \in Jobs : ~ENABLED TimerFires(j))
    /\ [][(scheduler # None /\ scheduler' = None) => job' = job]_vars
    /\ [][\A j \in Jobs : (job[j].pc = "idle" /\ job'[j].pc # "idle") =>
             scheduler # None]_vars
    /\ [](\A j \in Jobs : job[j].pc # "idle" => ENABLED TickStep(j))

C13_Witness ==
    /\ app = "down"
    /\ scheduler = None
    /\ cap.pc = "iter"
    /\ cap.result # None
    /\ camera_error # None

\* C14: a broadcast run by a timer thread works on the subscriber set as it was
\* when the call began: whatever is added or removed meanwhile, the call raises
\* nothing, visits no subscriber that was not registered at the call, and has
\* visited every subscriber that was registered at the call and still is at its
\* end.
C14_StableSnapshot ==
    [][\A j \in Jobs :
          /\ (job[j].pc = "iter" /\ job'[j].pc \in {"iter", "drop"}) =>
                job'[j].seen \subseteq job[j].snap
          /\ BroadcastEnds(j) =>
                /\ job'[j].err = "none"
                /\ (job[j].snap \cap clients') \subseteq job[j].seen]_vars

\* C15: when the broadcast of a tick raises, the exception does not leave the job
\* function, and the runtime state updates of the tick are applied: a capture
\* that fetched an image ends with the camera error None.
C15_BroadcastFaultContained ==
    [][\A j \in Jobs :
          BroadcastEnds(j) =>
             /\ ~job'[j].raised
             /\ (j = "job_snapshot" /\ job[j].result # None) =>
                   camera_error' = None]_vars

\* C16: every subscriber that stays registered gets every message, in the order
\* of the broadcast calls: a broadcast run by a timer thread has put its message
\* on the queue of every subscriber that was registered when it began and still
\* is when it ends; and while it has not yet put its message on the queue of such
\* a subscriber, no broadcast that began after it puts a message on that queue.
C16_EveryMessageInPublishOrder ==
    [][\A j \in Jobs :
          /\ BroadcastEnds(j) =>
                ((job[j].snap \cap clients') \ broken)
                    \subseteq (job[j].seen \ Range(job[j].dead))
          /\ (job[j].pc = "iter" /\ job'[j] = job[j]) =>
                \A c \in (job[j].snap \cap clients) \ job[j].seen :
                    Len(queues'[c]) <= Len(queues[c])]_vars

\* C17: the camera error goes from a record to None only in a step that ends a
\* capture which fetched an image (the tick's or the manual one) or that stores a
\* successful health check (the tick's or the one of update_settings); pausing,
\* resuming, starting, stopping, a heartbeat, a failed check, a failed capture
\* and the clock leave a recorded error in place.
C17_ErrorClearedOnlyBySuccess ==
    [][(camera_error # None /\ camera_error' = None) =>
          \/ ActionSnapshotFetched(TRUE)
          \/ BroadcastEnds("job_snapshot") /\ cap.result # None
          \/ hc.pc = "probing" /\ hc'.pc = "iter" /\ hc'.result.ok
          \/ us.pc = "probing" /\ us'.pc = "idle" /\ camera_health'.status = "ok"]_vars

C17_Witness ==
    /\ camera_error # None
    /\ camera_health # None
    /\ camera_health.status = "error"
    /\ is_paused
    /\ app = "down"
    /\ now = Time(5, 0, 0)
    /\ hb.pc = "iter"

\* C18: with active_start equal to active_end (both parse), no weekday set and
\* solar gating off, the evaluation is true exactly when now equals that time.
C18_EqualBoundsOneInstant ==
    (/\ status_resp # None
     /\ WindowParses
     /\ cfg.active_days = << >>
     /\ ~cfg.use_astral
     /\ Secs(StartParsed.t) = Secs(EndParsed.t))
    => status_resp.active = (Secs(now) = Secs(StartParsed.t))

\* the run of job j puts its message on the queue of subscriber c in this step
Delivers(j, c) ==
    /\ job[j].pc = "iter"
    /\ job'[j].pc = "iter"
    /\ c \in job'[j].seen \ job[j].seen
    /\ c \notin broken

\* C19: when a tick's message is put on a subscriber's queue, the runtime state
\* write of that tick has been made: the camera error is None for a capture that
\* fetched an image and snapshot_failed for one that did not, and the health slot
\* holds the status and checked-at of the health tick's message.
C19_StateWriteBeforeBroadcast ==
    [][\A c \in Ids :
          /\ Delivers("job_snapshot", c) =>
                camera_error = (IF cap.result # None THEN None
                                ELSE [code |-> "snapshot_failed",
                                      message |-> "Snapshot failed"])
          /\ Delivers("job_camera_healthcheck", c) =>
                /\ camera_health # None
                /\ camera_health.status = hc.msg.status
                /\ camera_health.checked_at = hc.msg.checked_at]_vars

\* the fields of configuration c the window evaluation reads
WindowOf(c) == <<c.active_start, c.active_end, c.active_days, c.use_astral>>

\* C20: a capture tick that evaluates the window while update_settings is changing
\* the configuration sees the window fields either all as they were before the
\* update or all as the form sets them.
C20_NoMixedConfiguration ==
    [][(Enters("job_snapshot") /\ ~is_paused /\ us.pc = "assigning") =>
          WindowOf(cfg) \in {WindowOf(us.old),
                             WindowOf(ApplyForm(us.old, us.form))}]_vars

\* C21: a handler reads and writes the shared configuration only while it holds
\* cfg_lock, so that no handler's write falls inside another handler's reads:
\* while update_settings has check_camera_health(cfg) reading the configuration,
\* the configuration does not change.
C21_ConfigAccessUnderLock ==
    [][us.pc = "probing" => UNCHANGED cfg]_vars

\* a snapshot fetch is in flight: job_snapshot or action_snapshot is inside
\* take_snapshot
FetchInFlight == cap.pc = "fetching" \/ loop # None

\* C22: a capture in progress never stalls the interactive endpoints: while a
\* snapshot fetch is in flight, scheduled or manual, a status request can be
\* served and a queued event can be delivered to its dashboard.
C22_CaptureNeverStallsEndpoints ==
    FetchInFlight =>
        /\ ENABLED Status
        /\ \A c \in conns : queues[c] # << >> => ENABLED SseDeliver(c)

\* C23: set_paused changes the paused flag and nothing of the scheduler: the step
\* that changes the flag leaves the scheduler instance, its armed timers and the
\* runs as they are; while the flag is set and the scheduler runs, every timer
\* can still fire, and a capture run entered then returns at once.
C23_PauseLeavesSchedulerArmed ==
    /\ [][(is_paused' # is_paused \/ cfg'.paused # cfg.paused) =>
             UNCHANGED <<scheduler, timers, job>>]_vars
    /\ []((is_paused /\ scheduler # None /\ \A k \in Jobs : job[k].pc = "idle") =>
             \A j \in Jobs : Armed(j) # {} /\ ENABLED TimerFires(j))
    /\ [][(Enters("job_snapshot") /\ is_paused) =>
             job'["job_snapshot"].pc = "idle" /\ job'["job_snapshot"].fetches = 0]_vars

C23_Witness ==
    /\ is_paused
    /\ cfg.paused
    /\ scheduler # None
    /\ Cardinality(timers) = 3
    /\ cap.gate = "paused"
    /\ hc.pc = "probing"

InFlight ==
    UNION {Range(queues[c]) : c \in Ids} \cup
    {job[j].msg : j \in {k \in Jobs : job[k].msg # None}}

MessageTypes == {"snapshot", "camera_error", "camera_health", "status"}

\* C25 as stated: every message handed to broadcast has one of the four types,
\* and the value of a status message is paused, running or waiting_window.
C25_MessageShapes ==
    \A m \in InFlight :
        /\ m.type \in MessageTypes
        /\ m.type = "status" => m.status \in {"paused", "running", "waiting_window"}

\* C25, amended: every message handed to broadcast, by a tick or by a handler, has
\* one of the four types, and the value of a status message is paused, running,
\* waiting_window or, after update_settings, config_reloaded.
C25_MessageShapesWithReload ==
    \A m \in InFlight :
        /\ m.type \in MessageTypes
        /\ m.type = "status" =>
              m.status \in {"paused", "running", "waiting_window", "config_reloaded"}

C25_Witness ==
    /\ \E c \in clients : StatusMsg("config_reloaded") \in Range(queues[c])
    /\ hb.pc = "iter"
    /\ hb.msg.status = "running"

\* C26: each function of runtime_state writes its own slot and no other; the slot
\* then holds exactly the value written, which is what the getter returns to the
\* status endpoint whatever was written before; clear_camera_error leaves None,
\* set_camera_error leaves a record that is not None even for empty values.
C26_SlotsIndependentLastValue ==
    [][/\ \A e \in ErrorInputs : SetCameraError(e[1], e[2]) =>
             /\ camera_error' # None
             /\ camera_error'.code = e[1] /\ camera_error'.message = e[2]
             /\ UNCHANGED <<camera_health, image_stats>>
       /\ ClearCameraError =>
             camera_error' = None /\ UNCHANGED <<camera_health, image_stats>>
       /\ \A h \in HealthInputs : SetCameraHealth(h[1], h[2], h[3], h[4]) =>
             /\ camera_health'.status = h[1] /\ camera_health'.code = h[2]
             /\ camera_health'.message = h[3] /\ camera_health'.checked_at = h[4]
             /\ UNCHANGED <<camera_error, image_stats>>
       /\ \A i \in StatsInputs : SetImageStats(i[1], i[2], i[3]) =>
             /\ image_stats'.count = i[1] /\ image_stats'.last_snapshot = i[2]
             /\ image_stats'.last_snapshot_full = i[3]
             /\ UNCHANGED <<camera_error, camera_health>>
       /\ status_resp' # status_resp =>
             /\ status_resp'.camera_error = camera_error
             /\ status_resp'.camera_health = camera_health
             /\ UNCHANGED <<camera_error, camera_health, image_stats>>]_vars

C26_Witness ==
    /\ camera_error = [code |-> "", message |-> ""]
    /\ camera_health # None
    /\ image_stats # None
    /\ status_resp # None
    /\ status_resp.camera_error = [code |-> "snapshot_failed", message |-> "Snapshot failed"]
    /\ status_resp.camera_health = None

\* C27: no successful fetch returns a filename that an earlier successful fetch
\* returned: when take_snapshot returns a result to action_snapshot, its filename
\* differs from that of the result the scheduled capture holds.
C27_DistinctFilenames ==
    [][(ActionSnapshotFetched(TRUE) /\ cap.result # None) =>
          SnapshotResult(loop.at).filename # cap.result.filename]_vars

\* C28: whatever the order of the calls of start_scheduler and stop_scheduler, one
\* instance at most has timers armed: after a start the scheduler is the new
\* instance and exactly one capture, one heartbeat and one health timer are armed,
\* all of that instance; after a stop the scheduler is None and no timer is armed;
\* a stop while the scheduler is None changes nothing.
C28_OneArmedInstance ==
    /\ [](scheduler # None =>
             /\ \A j \in Jobs : Cardinality(Armed(j)) = 1
             /\ \A t \in timers : t.sched = scheduler.id)
    /\ [](scheduler = None => timers = {})
    /\ [][StartScheduler => scheduler' # None]_vars
    /\ [][StopScheduler => scheduler' = None]_vars
    /\ [][(StopScheduler /\ scheduler = None) =>
             (scheduler' = scheduler /\ timers' = timers /\ job' = job)]_vars

C28_Witness ==
    /\ scheduler = None
    /\ timers = {}
    /\ hc.pc = "probing"
    /\ hc.by.sched = 1

\* C29: the paused state survives the restarts of the scheduler: a step that
\* starts or stops the scheduler or belongs to update_settings leaves is_paused and
\* cfg.paused as they are; set_paused(v) leaves both equal to v; hence the two
\* always agree.
C29_PausedSurvivesRestart ==
    /\ [][(scheduler' # scheduler \/ timers' # timers \/ us' # us) =>
             (is_paused' = is_paused /\ cfg'.paused = cfg.paused)]_vars
    /\ [][\A v \in BOOLEAN : ActionPauseResume(v) =>
             (is_paused' = v /\ cfg'.paused = v)]_vars
    /\ [](is_paused = cfg.paused)

C29_Witness ==
    /\ is_paused
    /\ cfg.paused
    /\ us.pc = "probing"
    /\ cfg.interval_seconds = 30
    /\ timers = ThreeTimers(scheduler.id, cfg)

\* C30: action_snapshot calls the fetcher whatever the paused flag and the active
\* window are; when the fetch succeeds it clears the camera error, raises the
\* cached image count by one and puts the snapshot message of that result on the
\* queue of every subscriber; when it fails it sets the camera error
\* snapshot_failed, puts the camera_error message on the queues and leaves the
\* image statistics as they are.
C30_ManualSnapshotBypassesGates ==
    /\ []((app = "up" /\ LoopFree /\ HasRoom(queues, clients)) => ENABLED ActionSnapshot)
    /\ [][ActionSnapshotFetched(TRUE) =>
             /\ camera_error' = None
             /\ CachedCount(image_stats') = CachedCount(image_stats) + 1
             /\ \A c \in clients :
                   queues'[c] = Append(queues[c], SnapshotMsg(SnapshotResult(loop.at)))]_vars
    /\ [][ActionSnapshotFetched(FALSE) =>
             /\ camera_error' = [code |-> "snapshot_failed", message |-> "Snapshot failed"]
             /\ image_stats' = image_stats
             /\ \A c \in clients :
                   /\ queues'[c] = Append(queues[c], CameraErrorMsg)
                   /\ CameraErrorMsg.type = "camera_error"]_vars

C30_Witness ==
    /\ is_paused
    /\ ~is_active_time(cfg)
    /\ camera_error = None
    /\ CachedCount(image_stats) = 1
    /\ image_stats.last_snapshot = SnapshotResult(<<now, weekday>>).timestamp
    /\ \E c \in clients :
          queues[c] = <<SnapshotMsg(SnapshotResult(<<now, weekday>>))>>

\* C31: removing a subscriber twice is harmless: the clients.remove of a
\* disconnect finds the subscriber still in the set, also after a broadcast has
\* dropped it as dead, and the removal loop of a broadcast ends without an
\* exception and with every subscriber of its dead list absent, also after one of
\* them has disconnected.
C31_DoubleRemovalHarmless ==
    [][/\ \A c \in Ids : SseDisconnect(c) => c \in clients
       /\ \A j \in Jobs :
             (job[j].pc = "drop" /\ job'[j].pc = "idle") =>
                /\ job'[j].err = "none"
                /\ Range(job[j].dead) \cap clients' = {}]_vars

\* the time up to which the logins of ip are rejected, 0 when it has no history
BlockedUntil(ip) == IF login_state[ip] = None THEN 0 ELSE login_state[ip].blocked_until

\* the failures of ip since its last successful login that are no older than the
\* window
RecentFailures(ip) ==
    IF login_state[ip] = None THEN << >>
    ELSE prune_attempts(login_state[ip].attempts, monotonic)

\* C32: with an access password configured, a failed login that is the fifth (or
\* a later one) of its address within 300 seconds, counted since the last
\* successful login of that address, starts a block that ends 60 seconds after
\* it; a block in force is always one that such a failure started; while it is in
\* force every login from the address is rejected, whatever the password, and
\* changes nothing; a right password outside a block is accepted and removes the
\* history of the address; no login changes the history of another address.
C32_LoginThrottling ==
    /\ [](\A ip \in Ips :
             BlockedUntil(ip) > monotonic =>
                LET a == login_state[ip].attempts
                    n == Len(a)
                IN  /\ n >= 5
                    /\ a[n] - a[n - 4] <= 300
                    /\ BlockedUntil(ip) = a[n] + 60)
    /\ [][\A ip \in Ips, correct \in BOOLEAN :
             LoginSubmit(ip, TRUE, correct) =>
                /\ BlockedUntil(ip) > monotonic =>
                      /\ login_resp'.outcome = "blocked"
                      /\ login_state' = login_state
                /\ (BlockedUntil(ip) <= monotonic /\ correct) =>
                      /\ login_resp'.outcome = "authenticated"
                      /\ login_state'[ip] = None
                /\ (BlockedUntil(ip) <= monotonic /\ ~correct) =>
                      /\ login_resp'.outcome = "wrong"
                      /\ login_resp'.blocked = (Len(RecentFailures(ip)) + 1 >= 5)
                      /\ Len(RecentFailures(ip)) + 1 >= 5 =>
                            BlockedUntil(ip)' = monotonic + 60
                      /\ Len(RecentFailures(ip)) + 1 < 5 => BlockedUntil(ip)' = 0
                /\ \A other \in Ips \ {ip} :
                      login_state'[other] = login_state[other]]_vars

C32_Witness ==
    /\ monotonic = 30
    /\ login_resp = [ip |-> "10.0.0.1", outcome |-> "blocked", blocked |-> TRUE,
                     remaining |-> 30]
    /\ login_state["10.0.0.1"].attempts = <<0, 0, 0, 0, 0>>
    /\ login_state["10.0.0.1"].blocked_until = 60
    /\ login_state["10.0.0.2"] # None
    /\ Len(login_state["10.0.0.2"].attempts) = 4

====
